---- MODULE Spec2Model ----
(***************************************************************************)
(* Semantic clustering engine of web/src/lib/embeddings.ts.                *)
(*                                                                         *)
(* Numbers.  A similarity is kept in hundredths (1.0 is 100, 0.4 is 40),   *)
(* a variance in ten-thousandths (0.04 is 400).  The vectors the model     *)
(* draws have integer entries and a norm that is a whole number, so every  *)
(* cosine is an exact number of hundredths and the arithmetic below is     *)
(* exact; means and variances are compared by cross-multiplication.        *)
(*                                                                         *)
(* JavaScript values.  A Map is a record of its keys in insertion order    *)
(* and a function on AllKeys; Map.get of a missing key is UNDEF.  NaN      *)
(* stands for both NaN and undefined where a number is expected: every     *)
(* ordering comparison with it is false.                                   *)
(***************************************************************************)
EXTENDS Integers, Sequences, FiniteSets, TLC

\* ---------------------------------------------------------------- bounds
MaxWrites == 3
MaxStackDepth == 4
MaxClusterLen == 4
MaxKnnDocs == 7
MaxEdges == 3
MaxUnions == 3
MaxCalls == 2
MaxFan == 9
MaxRuns == 3
MaxSubscriptions == 3
MaxPublishes == 2

\* --------------------------------------------------------- configuration
K_NEIGHBORS == 5
MUTUAL_KNN_REQUIRED == TRUE
MIN_SIMILARITY_THRESHOLD == 40
BRIDGE_NODE_MAX_DEGREE == 8
BRIDGE_NODE_PENALTY == 15
MAX_SIMILARITY_VARIANCE == 400
MIN_CLUSTER_SIZE_FOR_SPLIT == 3
MIN_AVG_SIMILARITY_FOR_COHESION == 50
threshold == 40

\* ------------------------------------------------------------ JS helpers
UNDEF == "undefined"
NaN == 0 - 1

Range(s) == { s[i] : i \in 1..Len(s) }

JsLess(x, y) == x # NaN /\ y # NaN /\ x < y
JsPlusOne(x) == IF x = NaN THEN NaN ELSE x + 1

Max2(x, y) == IF x >= y THEN x ELSE y

RECURSIVE SumSeq(_)
SumSeq(s) == IF s = <<>> THEN 0 ELSE s[1] + SumSeq(Tail(s))

RECURSIVE Flatten(_)
Flatten(ss) == IF ss = <<>> THEN <<>> ELSE ss[1] \o Flatten(Tail(ss))

\* Array.prototype.sort with the comparator (a, b) => b.k - a.k: a stable
\* sort, descending by the field k.
InsertDesc(sorted, e) ==
  LET before == SelectSeq(sorted, LAMBDA x : x.k >= e.k)
      after == SelectSeq(sorted, LAMBDA x : x.k < e.k)
  IN before \o <<e>> \o after

RECURSIVE SortDesc(_)
SortDesc(s) ==
  IF s = <<>> THEN <<>>
  ELSE InsertDesc(SortDesc(SubSeq(s, 1, Len(s) - 1)), s[Len(s)])

\* ----------------------------------------------------------- vector math
Sqrt(n) == CHOOSE r \in 0..n : r * r <= n /\ (r + 1) * (r + 1) > n

Dot(a, b) == SumSeq([i \in 1..Len(a) |-> a[i] * b[i]])

cosineSimilarity(a, b) ==
  IF Len(a) # Len(b) THEN 0
  ELSE LET dotProduct == Dot(a, b)
           normA == Dot(a, a)
           normB == Dot(b, b)
           denominator == Sqrt(normA) * Sqrt(normB)
       IN IF denominator = 0 THEN 0 ELSE (dotProduct * 100) \div denominator

\* ------------------------------------------------------------ union-find
NameSeq == <<"a", "b", "c", "d", "e", "f", "g", "h", "i">>
Names == Range(NameSeq)
AllKeys == Names \cup {UNDEF}

RECURSIVE Dedupe(_)
Dedupe(s) ==
  IF s = <<>> THEN <<>>
  ELSE LET front == Dedupe(SubSeq(s, 1, Len(s) - 1))
       IN IF s[Len(s)] \in Range(front) THEN front ELSE Append(front, s[Len(s)])

UnionFind(items) ==
  [keys |-> Dedupe(items),
   parent |-> [k \in AllKeys |-> IF k \in Range(items) THEN k ELSE UNDEF],
   rank |-> [k \in AllKeys |-> IF k \in Range(items) THEN 0 ELSE NaN]]

ParentSet(uf, k, v) ==
  [uf EXCEPT !.parent[k] = v,
             !.keys = IF k \in Range(@) THEN @ ELSE Append(@, k)]

RECURSIVE find(_, _)
find(uf, x) ==
  IF uf.parent[x] # x
  THEN LET inner == find(uf, uf.parent[x])
           after == ParentSet(inner.uf, x, inner.root)
       IN [uf |-> after, root |-> after.parent[x]]
  ELSE [uf |-> uf, root |-> uf.parent[x]]

\* union without the two calls of find: x itself, not its root, is linked
\* under y.
unionWithoutFind(uf, x, y) == ParentSet(uf, x, y)

\* union that, where rootY is to go under rootX, links y itself instead.
unionLinksY(uf, x, y) ==
  LET fx == find(uf, x)
      fy == find(fx.uf, y)
      u == fy.uf
      rootX == fx.root
      rootY == fy.root
      rankX == u.rank[rootX]
      rankY == u.rank[rootY]
  IN IF rootX = rootY THEN u
     ELSE IF JsLess(rankX, rankY) THEN ParentSet(u, rootX, rootY)
     ELSE IF JsLess(rankY, rankX) THEN ParentSet(u, y, rootX)
     ELSE [ParentSet(u, y, rootX) EXCEPT !.rank[rootX] = JsPlusOne(rankX)]

\* union that leaves alone a tree that an earlier union has built: roots
\* of rank above zero are not linked.
unionSkipsRanked(uf, x, y) ==
  LET fx == find(uf, x)
      fy == find(fx.uf, y)
      u == fy.uf
      rootX == fx.root
      rootY == fy.root
      rankX == u.rank[rootX]
      rankY == u.rank[rootY]
  IN IF rootX = rootY THEN u
     ELSE IF JsLess(rankX, rankY) \/ JsLess(rankY, rankX) THEN u
     ELSE [ParentSet(u, rootY, rootX) EXCEPT !.rank[rootX] = JsPlusOne(rankX)]

union(uf, x, y) ==
  LET fx == find(uf, x)
      fy == find(fx.uf, y)
      u == fy.uf
      rootX == fx.root
      rootY == fy.root
      rankX == u.rank[rootX]
      rankY == u.rank[rootY]
  IN IF rootX = rootY THEN u
     ELSE IF JsLess(rankX, rankY) THEN ParentSet(u, rootX, rootY)
     ELSE IF JsLess(rankY, rankX) THEN ParentSet(u, rootY, rootX)
     ELSE [ParentSet(u, rootY, rootX) EXCEPT !.rank[rootX] = JsPlusOne(rankX)]

\* getGroups without its test groups.has(root): the entry of root is set
\* anew for every item.
GroupsPushAnew(groups, root, item) ==
  IF \E g \in 1..Len(groups) : groups[g].root = root
  THEN [g \in 1..Len(groups) |->
          IF groups[g].root = root
          THEN [groups[g] EXCEPT !.items = <<item>>]
          ELSE groups[g]]
  ELSE Append(groups, [root |-> root, items |-> <<item>>])

\* groups.get(root).push(item), creating the entry on first sight of root.
GroupsPush(groups, root, item) ==
  IF \E g \in 1..Len(groups) : groups[g].root = root
  THEN [g \in 1..Len(groups) |->
          IF groups[g].root = root
          THEN [groups[g] EXCEPT !.items = Append(@, item)]
          ELSE groups[g]]
  ELSE Append(groups, [root |-> root, items |-> <<item>>])

RECURSIVE GetGroupsFrom(_, _, _)
GetGroupsFrom(uf, i, groups) ==
  IF i > Len(uf.keys) THEN groups
  ELSE LET f == find(uf, uf.keys[i])
       IN GetGroupsFrom(f.uf, i + 1, GroupsPush(groups, f.root, uf.keys[i]))

\* getGroups with the group met last put first.
getGroupsNewestFirst(uf) ==
  LET groups == GetGroupsFrom(uf, 1, <<>>)
  IN [g \in 1..Len(groups) |-> groups[Len(groups) + 1 - g]]

getGroups(uf) == GetGroupsFrom(uf, 1, <<>>)

RECURSIVE UnionAll(_, _)
UnionAll(uf, pairs) ==
  IF pairs = <<>> THEN uf
  ELSE UnionAll(union(uf, pairs[1][1], pairs[1][2]), Tail(pairs))

\* new Map(list.map(e => [e.memo_name, e])).get(name): the last entry of
\* that name, or UNDEF.
HasMemo(list, name) == \E i \in 1..Len(list) : list[i].memo_name = name
MemoGet(list, name) ==
  list[CHOOSE i \in 1..Len(list) :
         /\ list[i].memo_name = name
         /\ \A j \in (i + 1)..Len(list) : list[j].memo_name # name]

\* memoNames.map(name => memoMap.get(name)) without filter(Boolean): a name
\* the map does not know stays in the group as an entry without fields.
GroupMemosUnfiltered(list, memoNames) ==
  [i \in 1..Len(memoNames) |->
     IF HasMemo(list, memoNames[i])
     THEN MemoGet(list, memoNames[i])
     ELSE [memo_name |-> UNDEF, embedding |-> <<>>,
           has_intent |-> FALSE, intent_embedding |-> <<>>]]

\* memoNames.map(name => memoMap.get(name)).filter(Boolean)
GroupMemos(list, memoNames) ==
  LET known == SelectSeq(memoNames, LAMBDA n : HasMemo(list, n))
  IN [i \in 1..Len(known) |-> MemoGet(list, known[i])]

\* The clusters of a union-find over the memos of list, empty ones dropped.
RECURSIVE ClustersOf(_, _)
ClustersOf(list, groups) ==
  IF groups = <<>> THEN <<>>
  ELSE LET groupMemos == GroupMemos(list, groups[1].items)
       IN (IF Len(groupMemos) > 0 THEN <<groupMemos>> ELSE <<>>)
            \o ClustersOf(list, Tail(groups))

\* ---------------------------------------------------- threshold strategy
RECURSIVE PairsFrom(_, _, _)
PairsFrom(n, i, j) ==
  IF i > n THEN <<>>
  ELSE IF j > n THEN PairsFrom(n, i + 1, i + 2)
  ELSE <<<<i, j>>>> \o PairsFrom(n, i, j + 1)

\* for i, for j = i + 1: the pairs of positions in loop order.
Pairs(n) == PairsFrom(n, 1, 2)

Related(source, compared) ==
  /\ Len(source.embedding) = Len(compared.embedding)
  /\ cosineSimilarity(source.embedding, compared.embedding) >= threshold

simpleSemanticGrouping(embs) ==
  LET validEmbeddings == SelectSeq(embs, LAMBDA e : Len(e.embedding) > 0)
      n == Len(validEmbeddings)
      related == SelectSeq(Pairs(n),
                   LAMBDA p : Related(validEmbeddings[p[1]], validEmbeddings[p[2]]))
      unions == [q \in 1..Len(related) |->
                   <<validEmbeddings[related[q][1]].memo_name,
                     validEmbeddings[related[q][2]].memo_name>>]
      uf0 == UnionFind([q \in 1..n |-> validEmbeddings[q].memo_name])
      uf == UnionAll(uf0, unions)
  IN IF n = 0 THEN <<>>
     ELSE ClustersOf(validEmbeddings, getGroups(uf))

\* ------------------------------------------------- neighbor graph builder
\* The similarity computeKnnGraphClientSide ranks by (lines 428-455).
EffectiveSim(source, target) ==
  LET sim == cosineSimilarity(source.embedding, target.embedding)
  IN IF source.has_intent /\ target.has_intent
     THEN Max2(Max2(sim, cosineSimilarity(source.intent_embedding, target.intent_embedding)),
               Max2(cosineSimilarity(source.embedding, target.intent_embedding),
                    cosineSimilarity(source.intent_embedding, target.embedding)))
     ELSE IF source.has_intent
     THEN Max2(sim, cosineSimilarity(source.intent_embedding, target.embedding))
     ELSE IF target.has_intent
     THEN Max2(sim, cosineSimilarity(source.embedding, target.intent_embedding))
     ELSE sim

\* TopK without the sort: the first k of the others in input order.
TopKUnsorted(embs, source) ==
  LET others == SelectSeq(embs, LAMBDA t : t.memo_name # source.memo_name)
      topK == SubSeq(others, 1, IF Len(others) < K_NEIGHBORS THEN Len(others) ELSE K_NEIGHBORS)
  IN [i \in 1..Len(topK) |->
        [source_memo |-> source.memo_name,
         target_memo |-> topK[i].memo_name,
         similarity |-> EffectiveSim(source, topK[i])]]

\* The edges one source contributes: the others, sorted, the first k kept.
\* (!source.embedding and !target.embedding are false of every array, the
\* empty one included, so neither test skips anything.)
TopK(embs, source) ==
  LET others == SelectSeq(embs, LAMBDA t : t.memo_name # source.memo_name)
      similarities == [i \in 1..Len(others) |->
                         [k |-> EffectiveSim(source, others[i]), target |-> others[i]]]
      sorted == SortDesc(similarities)
      topK == SubSeq(sorted, 1, IF Len(sorted) < K_NEIGHBORS THEN Len(sorted) ELSE K_NEIGHBORS)
  IN [i \in 1..Len(topK) |->
        [source_memo |-> source.memo_name,
         target_memo |-> topK[i].target.memo_name,
         similarity |-> topK[i].k]]

computeKnnGraphClientSide(embs) ==
  Flatten([i \in 1..Len(embs) |-> TopK(embs, embs[i])])

\* --------------------------------------------------- mutual-kNN pruning
knnOf(edges, x) ==
  { edges[i].target_memo : i \in { j \in 1..Len(edges) : edges[j].source_memo = x } }

nodeDegree(edges, x) ==
  Cardinality({ i \in 1..Len(edges) : edges[i].source_memo = x })

PairKey(e) == {e.source_memo, e.target_memo}

\* The edge at position i is the first of its unordered pair.
FirstOfPair(edges, i) == \A j \in 1..(i - 1) : PairKey(edges[j]) # PairKey(edges[i])

\* The weight without the bridge-node penalty.
EdgeWeightNoPenalty(edges, e) == e.similarity

EdgeWeight(edges, e) ==
  IF \/ nodeDegree(edges, e.source_memo) > BRIDGE_NODE_MAX_DEGREE
     \/ nodeDegree(edges, e.target_memo) > BRIDGE_NODE_MAX_DEGREE
  THEN e.similarity - BRIDGE_NODE_PENALTY
  ELSE e.similarity

\* The loop body without the test of isMutual.
KeepsEdgeOneWay(edges, i) ==
  LET e == edges[i]
  IN /\ FirstOfPair(edges, i)
     /\ ~(e.similarity < MIN_SIMILARITY_THRESHOLD)
     /\ EdgeWeight(edges, e) > MIN_SIMILARITY_THRESHOLD

KeepsEdge(edges, i) ==
  LET e == edges[i]
      isMutual == e.source_memo \in knnOf(edges, e.target_memo)
  IN /\ FirstOfPair(edges, i)
     /\ ~(e.similarity < MIN_SIMILARITY_THRESHOLD)
     /\ ~(MUTUAL_KNN_REQUIRED /\ ~isMutual)
     /\ EdgeWeight(edges, e) > MIN_SIMILARITY_THRESHOLD

buildMutualKnnGraph(edges) ==
  LET kept == SelectSeq([i \in 1..Len(edges) |-> i], LAMBDA i : KeepsEdge(edges, i))
  IN [q \in 1..Len(kept) |->
        [source |-> edges[kept[q]].source_memo,
         target |-> edges[kept[q]].target_memo,
         weight |-> EdgeWeight(edges, edges[kept[q]])]]

\* Steps 3 and 4 of advancedSemanticGrouping: union the pruned edges in
\* descending weight and read the clusters off the union-find.
initialClusters(embs, prunedEdges) ==
  LET sorted == SortDesc([i \in 1..Len(prunedEdges) |->
                            [k |-> prunedEdges[i].weight, edge |-> prunedEdges[i]]])
      unions == [i \in 1..Len(sorted) |-> <<sorted[i].edge.source, sorted[i].edge.target>>]
      uf == UnionAll(UnionFind([i \in 1..Len(embs) |-> embs[i].memo_name]), unions)
  IN ClustersOf(embs, getGroups(uf))

\* ------------------------------------------------------ variance refiner
\* avgSimilarity is sum / count and variance is
\* (count * sumSq - sum * sum) / (count * count).
calculateClusterStats(memos) ==
  IF Len(memos) < 2
  THEN [count |-> 1, sum |-> 100, sumSq |-> 10000, pairwiseSimilarities |-> <<>>]
  ELSE LET pairs == Pairs(Len(memos))
           PairSim(i, j) ==
             LET sim == cosineSimilarity(memos[i].embedding, memos[j].embedding)
             IN IF memos[i].has_intent /\ memos[j].has_intent
                THEN Max2(sim, cosineSimilarity(memos[i].intent_embedding,
                                                memos[j].intent_embedding))
                ELSE sim
           similarities == [q \in 1..Len(pairs) |->
                              [i |-> pairs[q][1], j |-> pairs[q][2],
                               sim |-> PairSim(pairs[q][1], pairs[q][2])]]
           sims == [q \in 1..Len(similarities) |-> similarities[q].sim]
       IN [count |-> Len(sims),
           sum |-> SumSeq(sims),
           sumSq |-> SumSeq([q \in 1..Len(sims) |-> sims[q] * sims[q]]),
           pairwiseSimilarities |-> similarities]

needsSplit(stats) ==
  \/ stats.count * stats.sumSq - stats.sum * stats.sum
       > MAX_SIMILARITY_VARIANCE * stats.count * stats.count
  \/ stats.sum < MIN_AVG_SIMILARITY_FOR_COHESION * stats.count

\* avgSimToOthers[idx] as the fraction num / den.
avgSimToOthers(memos, stats) ==
  [idx \in 1..Len(memos) |->
     LET simsInvolving == SelectSeq(stats.pairwiseSimilarities,
                                    LAMBDA s : s.i = idx \/ s.j = idx)
     IN [num |-> SumSeq([q \in 1..Len(simsInvolving) |-> simsInvolving[q].sim]),
         den |-> Max2(Len(simsInvolving), 1)]]

FracLess(p, q) == p.num * q.den < q.num * p.den

\* avg.indexOf(Math.max(...avg)) and avg.indexOf(Math.min(...avg)).
IndexOfMax(avg) ==
  CHOOSE i \in 1..Len(avg) :
    /\ \A j \in 1..Len(avg) : ~FracLess(avg[i], avg[j])
    /\ \A j \in 1..(i - 1) : FracLess(avg[j], avg[i])
IndexOfMin(avg) ==
  CHOOSE i \in 1..Len(avg) :
    /\ \A j \in 1..Len(avg) : ~FracLess(avg[j], avg[i])
    /\ \A j \in 1..(i - 1) : FracLess(avg[i], avg[j])

\* The test of the bisection with > for >=: a tie goes to the second seed.
InCluster1Strict(memo, seed1, seed2) ==
  cosineSimilarity(memo.embedding, seed1.embedding)
    > cosineSimilarity(memo.embedding, seed2.embedding)

InCluster1(memo, seed1, seed2) ==
  cosineSimilarity(memo.embedding, seed1.embedding)
    >= cosineSimilarity(memo.embedding, seed2.embedding)

\* The bisection with a strict test on either side (> and <): a memo as
\* close to one seed as to the other goes to neither cluster.
splitStrictlyCloser(memos, stats) ==
  IF Len(memos) < 2 THEN <<memos>>
  ELSE LET avg == avgSimToOthers(memos, stats)
           centralIdx == IndexOfMax(avg)
           peripheralIdx == IndexOfMin(avg)
           seed1 == memos[centralIdx]
           seed2 == memos[peripheralIdx]
           cluster1 == SelectSeq(memos, LAMBDA m : ~InCluster1(m, seed2, seed1))
           cluster2 == SelectSeq(memos, LAMBDA m : ~InCluster1(m, seed1, seed2))
       IN IF centralIdx = peripheralIdx THEN <<memos>>
          ELSE IF Len(cluster1) = 0 THEN <<cluster2>>
          ELSE IF Len(cluster2) = 0 THEN <<cluster1>>
          ELSE <<cluster1, cluster2>>

splitClusterByVariance(memos, stats) ==
  IF Len(memos) < 2 THEN <<memos>>
  ELSE LET avg == avgSimToOthers(memos, stats)
           centralIdx == IndexOfMax(avg)
           peripheralIdx == IndexOfMin(avg)
           seed1 == memos[centralIdx]
           seed2 == memos[peripheralIdx]
           cluster1 == SelectSeq(memos, LAMBDA m : InCluster1(m, seed1, seed2))
           cluster2 == SelectSeq(memos, LAMBDA m : ~InCluster1(m, seed1, seed2))
       IN IF centralIdx = peripheralIdx THEN <<memos>>
          ELSE IF Len(cluster1) = 0 THEN <<cluster2>>
          ELSE IF Len(cluster2) = 0 THEN <<cluster1>>
          ELSE <<cluster1, cluster2>>

\* The test of the statistics alone, whatever the size of the cluster.
SplitsClusterAnySize(cluster) == needsSplit(calculateClusterStats(cluster))

\* The test splitHighVarianceClusters makes of one cluster (lines 757-778).
SplitsCluster(cluster) ==
  /\ ~(Len(cluster) < MIN_CLUSTER_SIZE_FOR_SPLIT)
  /\ needsSplit(calculateClusterStats(cluster))
  /\ Len(cluster) >= MIN_CLUSTER_SIZE_FOR_SPLIT

\* ================================================================ state
VARIABLES
  db,          \* table memo_embeddings, in the order getAllMemoEmbeddings returns it
  writes,      \* number of writes to the table so far
  pc,          \* where the clustering run stands
  strategy,    \* "none", "threshold" or "graph"
  embeddings,  \* the list of embeddings the run works on
  rpc,         \* how the call of get_all_knn ended
  knnEdges,    \* what fetchKnnGraph returned
  clusters,    \* initialClusters, the list handed to splitHighVarianceClusters
  stack,       \* call stack of splitHighVarianceClusters
  result,      \* the partition returned: result[i] is the group "Group i"
  prunedEdges, \* what buildMutualKnnGraph returned
  entry,       \* the function the run was started through
  uf,          \* a UnionFind object of its own
  ufOps,       \* the calls of union made on uf, in order
  listeners,   \* the Set listeners: its entries in insertion order
  cursor,      \* position of the iteration of notifyListeners in listeners
  invoked,     \* how often each observer was called in this notification
  received,    \* what each observer was last called with in this notification
  atStart,     \* the observers registered when notifyListeners was entered
  removed,     \* the observers unsubscribed while notifyListeners iterated
  caller,      \* who awaits the run: "save", "refresh", "direct" or "none"
  fetch,       \* how getAllMemoEmbeddings ended
  failure,     \* what the run's promise was rejected with
  vecA,        \* first argument of the two cosine functions
  vecB,        \* second argument of the two cosine functions
  sims,        \* what the two cosine functions returned
  thisWeek,    \* FindSemanticConnections: this week's embeddings
  allPrevious, \* FindSemanticConnections: the earlier embeddings
  connections, \* FindSemanticConnections: its result
  newMemo,     \* GenerateInsight: *store.Memo, <<>> for nil
  oldMemo,     \* GenerateInsight: *store.Memo, <<>> for nil
  insight,     \* GenerateInsight: what it returned, <<>> before
  pairStats,   \* calculateClusterStats of a pair: what it returned, <<>> before
  runs,        \* the clustering runs the page has started, in order of start
  panel,       \* SemanticPanel's state groups: <<>> before the first setGroups
  subscriptions \* the calls of onSemanticGroupsUpdate made, in order

ufVars == <<uf, ufOps>>
notifyVars ==
  <<listeners, cursor, invoked, received, atStart, removed, caller, fetch, failure>>
cosineVars == <<vecA, vecB, sims>>
digestVars == <<thisWeek, allPrevious, connections>>
insightVars == <<newMemo, oldMemo, insight>>
panelVars == <<runs, panel, subscriptions>>
lateVars == <<insightVars, pairStats, panelVars>>
\* What the clustering functions of embeddings.ts leave alone.
otherVars == <<ufVars, notifyVars, cosineVars, digestVars, lateVars>>
runVars == <<pc, strategy, embeddings, rpc, knnEdges, clusters, stack, result, prunedEdges, entry>>
vars == <<db, writes, runVars, otherVars>>

\* The observers that may register with onSemanticGroupsUpdate.
Observers == {"o1", "o2", "o3"}

Doc(name, kind) ==
  [memo_name |-> name, embedding |-> kind.embedding,
   has_intent |-> kind.has_intent, intent_embedding |-> kind.intent_embedding]

Plain(v) == [embedding |-> v, has_intent |-> FALSE, intent_embedding |-> <<>>]
WithIntent(v, w) == [embedding |-> v, has_intent |-> TRUE, intent_embedding |-> w]

\* What the table may hold: three names, vectors of the corpus dimension,
\* one of another dimension, a row without a vector.
DbNames == {"a", "b", "c"}
DocKinds ==
  { Plain(<<1, 0, 0>>), Plain(<<0, 1, 0>>), Plain(<<3, 4, 0>>), Plain(<<1, 0>>),
    Plain(<<>>) }

\* What get_all_knn may answer: for the first pairs of PairList, an edge
\* each way (or one way only), all of one similarity above the threshold.
PairList == << <<"a", "b">>, <<"b", "c">>, <<"a", "c">> >>
RpcSims == {45}
RpcReply(chosen, sim, bothWays) ==
  Flatten([i \in 1..Len(PairList) |->
    IF i \in chosen
    THEN <<[source_memo |-> PairList[i][1], target_memo |-> PairList[i][2], similarity |-> sim]>>
           \o (IF bothWays
               THEN <<[source_memo |-> PairList[i][2], target_memo |-> PairList[i][1],
                       similarity |-> sim]>>
               ELSE <<>>)
    ELSE <<>>])
RpcReplies ==
  { RpcReply(chosen, sim, bothWays) :
      chosen \in { 1..n : n \in 0..Len(PairList) }, sim \in RpcSims, bothWays \in BOOLEAN }

\* getAllMemoEmbeddings not called: neither query issued.
NoFetch == [extended |-> "none", basic |-> "none"]

\* No clustering run under way.
RunIdle ==
  /\ pc = "idle"
  /\ strategy = "none"
  /\ embeddings = <<>>
  /\ rpc = "none"
  /\ knnEdges = <<>>
  /\ clusters = <<>>
  /\ stack = <<>>
  /\ result = <<>>
  /\ prunedEdges = <<>>
  /\ entry = "none"

UfIdle ==
  /\ uf = UnionFind(<<>>)
  /\ ufOps = <<>>

\* Nothing registered, nothing called: the module just loaded.
NotifyIdle ==
  /\ listeners = <<>>
  /\ cursor = 0
  /\ invoked = [o \in Observers |-> 0]
  /\ received = [o \in Observers |-> UNDEF]
  /\ atStart = {}
  /\ removed = {}
  /\ caller = "none"
  /\ fetch = NoFetch
  /\ failure = "none"

CosineIdle ==
  /\ vecA = <<>>
  /\ vecB = <<>>
  /\ sims = <<>>

DigestIdle ==
  /\ thisWeek = <<>>
  /\ allPrevious = <<>>
  /\ connections = <<>>

InsightIdle ==
  /\ newMemo = <<>>
  /\ oldMemo = <<>>
  /\ insight = <<>>

\* SemanticPanel not mounted, nothing subscribed.
PanelIdle ==
  /\ runs = <<>>
  /\ panel = <<>>
  /\ subscriptions = <<>>

LateIdle == InsightIdle /\ pairStats = <<>> /\ PanelIdle

OthersIdle == UfIdle /\ NotifyIdle /\ CosineIdle /\ DigestIdle /\ LateIdle

Init ==
  /\ db = <<>>
  /\ writes = 0
  /\ pc = "idle"
  /\ strategy = "none"
  /\ embeddings = <<>>
  /\ rpc = "none"
  /\ knnEdges = <<>>
  /\ clusters = <<>>
  /\ stack = <<>>
  /\ result = <<>>
  /\ prunedEdges = <<>>
  /\ entry = "none"
  /\ OthersIdle

\* ------------------------------------------------------------ the table
\* The table changes under saveMemoEmbedding and deleteMemoEmbedding at any
\* time.  A run reads it at its start and, in computeKnnGraphClientSide, a
\* second time: a write takes effect for the run at one of these two reads,
\* so writes are taken while no run is under way and while the second read
\* is awaited.
WriteSeen == pc \in {"idle", "clientFetch"}

\* upsert on memo_name: a new row is the newest (first in created_at
\* descending order), an existing row keeps its created_at.
Upsert(table, doc) ==
  IF HasMemo(table, doc.memo_name)
  THEN [i \in 1..Len(table) |->
          IF table[i].memo_name = doc.memo_name THEN doc ELSE table[i]]
  ELSE <<doc>> \o table

DbUpsert ==
  /\ writes < MaxWrites
  /\ WriteSeen
  /\ \E name \in DbNames, kind \in DocKinds : db' = Upsert(db, Doc(name, kind))
  /\ writes' = writes + 1
  /\ UNCHANGED <<runVars, otherVars>>

DbDelete ==
  /\ writes < MaxWrites
  /\ WriteSeen
  /\ \E name \in DbNames :
       /\ HasMemo(db, name)
       /\ db' = SelectSeq(db, LAMBDA d : d.memo_name # name)
  /\ writes' = writes + 1
  /\ UNCHANGED <<runVars, otherVars>>

\* ------------------------------------------------------ threshold entry
groupMemosSemantically ==
  /\ pc = "idle"
  /\ pc' = "done"
  /\ strategy' = "threshold"
  /\ embeddings' = db
  /\ result' = IF Len(db) = 0 THEN <<>> ELSE simpleSemanticGrouping(db)
  /\ rpc' = "none"
  /\ knnEdges' = <<>>
  /\ clusters' = <<>>
  /\ stack' = <<>>
  /\ prunedEdges' = <<>>
  /\ entry' = "groupMemosSemantically"
  /\ UNCHANGED <<db, writes, otherVars>>

\* ------------------------------------------------------- graph strategy
advancedSemanticGrouping ==
  /\ pc = "idle"
  /\ pc' = "rpc"
  /\ strategy' = "graph"
  /\ embeddings' = db
  /\ rpc' = "none"
  /\ knnEdges' = <<>>
  /\ clusters' = <<>>
  /\ stack' = <<>>
  /\ result' = <<>>
  /\ prunedEdges' = <<>>
  /\ entry' = "advancedSemanticGrouping"
  /\ UNCHANGED <<db, writes, otherVars>>

RpcData ==
  /\ pc = "rpc"
  /\ \E data \in RpcReplies : knnEdges' = data
  /\ rpc' = "data"
  /\ pc' = "knnDone"
  /\ UNCHANGED <<db, writes, strategy, embeddings, clusters, stack, result, prunedEdges, entry, otherVars>>

RpcNoData ==
  /\ pc = "rpc"
  /\ knnEdges' = <<>>
  /\ rpc' = "nodata"
  /\ pc' = "knnDone"
  /\ UNCHANGED <<db, writes, strategy, embeddings, clusters, stack, result, prunedEdges, entry, otherVars>>

RpcError ==
  /\ pc = "rpc"
  /\ rpc' = "error"
  /\ pc' = "clientFetch"
  /\ UNCHANGED <<db, writes, strategy, embeddings, knnEdges, clusters, stack, result, prunedEdges,
               entry, otherVars>>

RpcThrow ==
  /\ pc = "rpc"
  /\ rpc' = "throw"
  /\ pc' = "clientFetch"
  /\ UNCHANGED <<db, writes, strategy, embeddings, knnEdges, clusters, stack, result, prunedEdges,
               entry, otherVars>>

ClientSideKnn ==
  /\ pc = "clientFetch"
  /\ knnEdges' = computeKnnGraphClientSide(db)
  /\ pc' = "knnDone"
  /\ UNCHANGED <<db, writes, strategy, embeddings, rpc, clusters, stack, result, prunedEdges, entry,
               otherVars>>

\* advancedSemanticGrouping without its test knnEdges.length === 0.
NeverUsesFallback(edges) == FALSE

UsesFallback(edges) == Len(edges) = 0

Frame(parent, subs) == [parent |-> parent, subs |-> subs, todo |-> subs, result |-> <<>>]

AdvancedCluster ==
  /\ pc = "knnDone"
  /\ IF UsesFallback(knnEdges)
     THEN /\ result' = simpleSemanticGrouping(embeddings)
          /\ pc' = "done"
          /\ UNCHANGED <<clusters, stack, prunedEdges>>
     ELSE /\ prunedEdges' = buildMutualKnnGraph(knnEdges)
          /\ clusters' = initialClusters(embeddings, prunedEdges')
          /\ stack' = <<Frame(<<>>, clusters')>>
          /\ pc' = "refine"
          /\ result' = <<>>
  /\ UNCHANGED <<db, writes, strategy, embeddings, rpc, knnEdges, entry, otherVars>>

\* ------------------------------------------ splitHighVarianceClusters
Top == stack[Len(stack)]
SetTop(f) == [stack EXCEPT ![Len(stack)] = f]

RefineKeep ==
  /\ pc = "refine"
  /\ Top.todo # <<>>
  /\ ~SplitsCluster(Top.todo[1])
  /\ stack' = SetTop([Top EXCEPT !.todo = Tail(@), !.result = Append(@, Top.todo[1])])
  /\ UNCHANGED <<db, writes, pc, strategy, embeddings, rpc, knnEdges, clusters, result, prunedEdges,
               entry, otherVars>>

RefineSplit ==
  /\ pc = "refine"
  /\ Top.todo # <<>>
  /\ SplitsCluster(Top.todo[1])
  /\ Len(stack) < MaxStackDepth
  /\ LET cluster == Top.todo[1]
         subClusters == splitClusterByVariance(cluster, calculateClusterStats(cluster))
     IN stack' = Append(SetTop([Top EXCEPT !.todo = Tail(@)]), Frame(cluster, subClusters))
  /\ UNCHANGED <<db, writes, pc, strategy, embeddings, rpc, knnEdges, clusters, result, prunedEdges,
               entry, otherVars>>

\* The recursion has used up the call stack: RangeError.
StackOverflow ==
  /\ pc = "refine"
  /\ Top.todo # <<>>
  /\ SplitsCluster(Top.todo[1])
  /\ Len(stack) >= MaxStackDepth
  /\ pc' = "failed"
  /\ stack' = <<>>
  /\ UNCHANGED <<db, writes, strategy, embeddings, rpc, knnEdges, clusters, result, prunedEdges, entry,
               otherVars>>

RefineReturn ==
  /\ pc = "refine"
  /\ Top.todo = <<>>
  /\ IF Len(stack) > 1
     THEN /\ stack' = [SubSeq(stack, 1, Len(stack) - 1)
                         EXCEPT ![Len(stack) - 1].result = @ \o Top.result]
          /\ UNCHANGED <<pc, result>>
     ELSE /\ stack' = <<>>
          /\ result' = SelectSeq(Top.result, LAMBDA cluster : Len(cluster) > 0)
          /\ pc' = "done"
  /\ UNCHANGED <<db, writes, strategy, embeddings, rpc, knnEdges, clusters, prunedEdges, entry,
               otherVars>>

\* The run's promise has settled; nothing of the run outlives it.
Return ==
  /\ pc \in {"done", "failed"}
  /\ pc' = "idle"
  /\ strategy' = "none"
  /\ embeddings' = <<>>
  /\ rpc' = "none"
  /\ knnEdges' = <<>>
  /\ clusters' = <<>>
  /\ stack' = <<>>
  /\ result' = <<>>
  /\ prunedEdges' = <<>>
  /\ entry' = "none"
  /\ UNCHANGED <<db, writes, otherVars>>

Next ==
  \/ DbUpsert
  \/ DbDelete
  \/ groupMemosSemantically
  \/ advancedSemanticGrouping
  \/ RpcData
  \/ RpcNoData
  \/ RpcError
  \/ RpcThrow
  \/ ClientSideKnn
  \/ AdvancedCluster
  \/ RefineKeep
  \/ RefineSplit
  \/ RefineReturn
  \/ StackOverflow
  \/ Return

Spec == Init /\ [][Next]_vars

\* ------------------------------------------- the refiner on its own
\* splitHighVarianceClusters on every cluster of up to MaxClusterLen memos,
\* alone in the list or behind a cluster of one memo.
RefineKinds ==
  { Plain(<<1, 0, 0>>), Plain(<<0, 1, 0>>), Plain(<<0, 0, 1>>), Plain(<<3, 4, 0>>),
    Plain(<<>>), WithIntent(<<1, 0, 0>>, <<0, 1, 0>>) }

InitRefine ==
  \E n \in 0..MaxClusterLen : \E kinds \in [1..n -> RefineKinds] : \E cut \in {1, Max2(n, 1)} :
    LET docs == [i \in 1..n |-> Doc(NameSeq[i], kinds[i])]
        input == IF n = 0 THEN <<>>
                 ELSE IF cut = n THEN <<docs>>
                 ELSE <<SubSeq(docs, 1, cut), SubSeq(docs, cut + 1, n)>>
    IN /\ db = <<>>
       /\ writes = 0
       /\ pc = "refine"
       /\ strategy = "graph"
       /\ embeddings = docs
       /\ rpc = "data"
       /\ knnEdges = <<>>
       /\ clusters = input
       /\ stack = <<Frame(<<>>, input)>>
       /\ result = <<>>
       /\ prunedEdges = <<>>
       /\ entry = "advancedSemanticGrouping"
       /\ OthersIdle

NextRefine ==
  \/ RefineKeep
  \/ RefineSplit
  \/ RefineReturn
  \/ StackOverflow

SpecRefine == InitRefine /\ [][NextRefine]_vars

\* ------------------------------------- the neighbor builder on its own
\* computeKnnGraphClientSide on every table of up to MaxKnnDocs rows.
KnnKinds ==
  { Plain(<<1, 0, 0>>), Plain(<<>>), WithIntent(<<0, 1, 0>>, <<3, 4, 0>>) }

InitKnn ==
  \E n \in 0..MaxKnnDocs : \E kinds \in [1..n -> KnnKinds] :
    LET docs == [i \in 1..n |-> Doc(NameSeq[i], kinds[i])]
    IN /\ db = docs
       /\ writes = 0
       /\ pc = "clientFetch"
       /\ strategy = "graph"
       /\ embeddings = docs
       /\ rpc = "error"
       /\ knnEdges = <<>>
       /\ clusters = <<>>
       /\ stack = <<>>
       /\ result = <<>>
       /\ prunedEdges = <<>>
       /\ entry = "advancedSemanticGrouping"
       /\ OthersIdle

NextKnn == ClientSideKnn

SpecKnn == InitKnn /\ [][NextKnn]_vars

\* ------------------------------------------------ the pruning on its own
\* advancedSemanticGrouping from the return of fetchKnnGraph on, for every
\* list of up to MaxEdges directed edges among three like documents: edges
\* from a document to itself, repeated edges and edges below the minimum
\* similarity included.
PruneSims == {30, 45}
PruneEdges ==
  { [source_memo |-> s, target_memo |-> t, similarity |-> w] :
      s \in DbNames, t \in DbNames, w \in PruneSims }
PruneCorpus ==
  << Doc("a", Plain(<<1, 0, 0>>)), Doc("b", Plain(<<1, 0, 0>>)), Doc("c", Plain(<<1, 0, 0>>)) >>

InitPrune ==
  \E n \in 0..MaxEdges : \E edges \in [1..n -> PruneEdges] :
    /\ db = PruneCorpus
    /\ writes = 0
    /\ pc = "knnDone"
    /\ strategy = "graph"
    /\ embeddings = PruneCorpus
    /\ rpc = "data"
    /\ knnEdges = edges
    /\ clusters = <<>>
    /\ stack = <<>>
    /\ result = <<>>
    /\ prunedEdges = <<>>
    /\ entry = "advancedSemanticGrouping"
    /\ OthersIdle

NextPrune == AdvancedCluster

SpecPrune == InitPrune /\ [][NextPrune]_vars

\* ------------------------------------------- pruning around a bridge node
\* A provider's list in which document a has up to MaxFan edges, to b and c
\* in turn, and b and c may have an edge back to a, before or after a's.
BridgeSims == {45, 55, 56, 60}

FanEdges(n, simOf) ==
  [i \in 1..n |->
     LET t == IF i % 2 = 1 THEN "b" ELSE "c"
     IN [source_memo |-> "a", target_memo |-> t, similarity |-> simOf[t]]]

BackEdges(backs, simOf) ==
  LET both == << [source_memo |-> "b", target_memo |-> "a", similarity |-> simOf["b"]],
                 [source_memo |-> "c", target_memo |-> "a", similarity |-> simOf["c"]] >>
  IN SelectSeq(both, LAMBDA e : e.source_memo \in backs)

InitBridge ==
  \E n \in 0..MaxFan, simOf \in [{"b", "c"} -> BridgeSims], backs \in SUBSET {"b", "c"},
     backFirst \in BOOLEAN :
    /\ db = PruneCorpus
    /\ writes = 0
    /\ pc = "knnDone"
    /\ strategy = "graph"
    /\ embeddings = PruneCorpus
    /\ rpc = "data"
    /\ knnEdges = IF backFirst THEN BackEdges(backs, simOf) \o FanEdges(n, simOf)
                  ELSE FanEdges(n, simOf) \o BackEdges(backs, simOf)
    /\ clusters = <<>>
    /\ stack = <<>>
    /\ result = <<>>
    /\ prunedEdges = <<>>
    /\ entry = "advancedSemanticGrouping"
    /\ OthersIdle

SpecBridge == InitBridge /\ [][NextPrune]_vars

\* ------------------------------------------------ UnionFind on its own
\* A UnionFind over four registered ids, and any MaxUnions calls of union
\* on two of them with calls of find in between.
UfItems == <<"a", "b", "c", "d">>

InitUf ==
  /\ db = <<>>
  /\ writes = 0
  /\ RunIdle
  /\ uf = UnionFind(UfItems)
  /\ ufOps = <<>>
  /\ NotifyIdle
  /\ CosineIdle
  /\ DigestIdle
  /\ LateIdle

UfUnion ==
  /\ Len(ufOps) < MaxUnions
  /\ \E x \in Range(UfItems), y \in Range(UfItems) :
       /\ x # y
       /\ uf' = union(uf, x, y)
       /\ ufOps' = Append(ufOps, <<x, y>>)
  /\ UNCHANGED <<db, writes, runVars, notifyVars, cosineVars, digestVars, lateVars>>

UfFind ==
  /\ \E x \in Range(UfItems) : uf' = find(uf, x).uf
  /\ UNCHANGED <<db, writes, runVars, ufOps, notifyVars, cosineVars, digestVars, lateVars>>

NextUf ==
  \/ UfUnion
  \/ UfFind

SpecUf == InitUf /\ [][NextUf]_vars

\* ------------------------------------------- observers and publication
\* The Set listeners is the sequence of its entries in insertion order.  An
\* iteration over it is the number of entries it has passed (cursor): a
\* deletion of a passed entry moves it back by one, an entry added is the
\* last, so that an entry deleted and added again is met a second time.
IndexOf(ls, x) == CHOOSE i \in 1..Len(ls) : ls[i] = x

SetAdd(st, x) ==
  IF x \in Range(st.ls) THEN st ELSE [st EXCEPT !.ls = Append(@, x)]

\* SetDelete with an iteration that does not follow the deletion.
SetDeleteKeepsCursor(st, x) ==
  IF x \notin Range(st.ls) THEN st
  ELSE LET i == IndexOf(st.ls, x)
       IN [ls |-> SubSeq(st.ls, 1, i - 1) \o SubSeq(st.ls, i + 1, Len(st.ls)),
           c |-> st.c]

SetDelete(st, x) ==
  IF x \notin Range(st.ls) THEN st
  ELSE LET i == IndexOf(st.ls, x)
       IN [ls |-> SubSeq(st.ls, 1, i - 1) \o SubSeq(st.ls, i + 1, Len(st.ls)),
           c |-> IF i <= st.c THEN st.c - 1 ELSE st.c]

\* The table the page and the editor work on: two memos, two vectors.
NotifyNames == {"a", "b"}
NotifyKinds == { Plain(<<1, 0, 0>>), WithIntent(<<0, 1, 0>>, <<1, 0, 0>>) }

\* How a query of supabase-js may end.
QueryOutcomes == {"data", "error", "throw"}

\* getAllMemoEmbeddings without the retry of lines 353-356.
FetchOutcomeNoRetry(extended, basic) ==
  IF extended = "data" THEN "extended" ELSE "failed"

\* What getAllMemoEmbeddings makes of its queries: "extended" rows, "basic"
\* rows, or "failed" (it throws).
FetchOutcome(extended, basic) ==
  IF extended = "data" THEN "extended"
  ELSE IF extended = "throw" THEN "failed"
  ELSE IF basic = "data" THEN "basic"
  ELSE "failed"

\* A row of the basic columns has no intent_embedding.
BasicColumns(rows) ==
  [i \in 1..Len(rows) |->
     [rows[i] EXCEPT !.has_intent = FALSE, !.intent_embedding = <<>>]]

CountUp(n) == IF n < MaxCalls THEN n + 1 ELSE n

\* onSemanticGroupsUpdate called by the page (not from within an observer).
Subscribe ==
  /\ pc \in {"idle", "fetching"}
  /\ \E o \in Observers \ Range(listeners) :
       listeners' = SetAdd([ls |-> listeners, c |-> 0], o).ls
  /\ UNCHANGED <<db, writes, runVars, ufVars, cursor, invoked, received, atStart, removed,
                 caller, fetch, failure, cosineVars, digestVars, lateVars>>

\* The token onSemanticGroupsUpdate returned, called by the page.
Unsubscribe ==
  /\ pc \in {"idle", "fetching"}
  /\ \E o \in Range(listeners) :
       listeners' = SetDelete([ls |-> listeners, c |-> 0], o).ls
  /\ UNCHANGED <<db, writes, runVars, ufVars, cursor, invoked, received, atStart, removed,
                 caller, fetch, failure, cosineVars, digestVars, lateVars>>

\* saveMemoEmbedding up to its call of updateSemanticGroupsAsync: the row
\* is written.
SaveMemo ==
  /\ pc = "idle"
  /\ \E name \in NotifyNames, kind \in NotifyKinds : db' = Upsert(db, Doc(name, kind))
  /\ pc' = "fetching"
  /\ caller' = "save"
  /\ UNCHANGED <<writes, strategy, embeddings, rpc, knnEdges, clusters, stack, result,
                 prunedEdges, entry, ufVars, listeners, cursor, invoked, received, atStart,
                 removed, fetch, failure, cosineVars, digestVars, lateVars>>

\* saveMemoEmbedding when the embedding provider or the upsert fails: it
\* throws before any run.
SaveFails ==
  /\ pc = "idle"
  /\ pc' = "rejected"
  /\ caller' = "save"
  /\ failure' = "save"
  /\ UNCHANGED <<db, writes, strategy, embeddings, rpc, knnEdges, clusters, stack, result,
                 prunedEdges, entry, ufVars, listeners, cursor, invoked, received, atStart,
                 removed, fetch, cosineVars, digestVars, lateVars>>

\* handleRefresh: updateSemanticGroupsAsync called by the page.
Refresh ==
  /\ pc = "idle"
  /\ pc' = "fetching"
  /\ caller' = "refresh"
  /\ UNCHANGED <<db, writes, strategy, embeddings, rpc, knnEdges, clusters, stack, result,
                 prunedEdges, entry, ufVars, listeners, cursor, invoked, received, atStart,
                 removed, fetch, failure, cosineVars, digestVars, lateVars>>

\* The page's initial fetch: groupMemosSemantically called directly.
InitialFetch ==
  /\ pc = "idle"
  /\ pc' = "fetching"
  /\ caller' = "direct"
  /\ UNCHANGED <<db, writes, strategy, embeddings, rpc, knnEdges, clusters, stack, result,
                 prunedEdges, entry, ufVars, listeners, cursor, invoked, received, atStart,
                 removed, fetch, failure, cosineVars, digestVars, lateVars>>

\* groupMemosSemantically from its await of getAllMemoEmbeddings to its
\* return, and updateSemanticGroupsAsync up to its call of notifyListeners.
FetchAndGroup ==
  /\ pc = "fetching"
  /\ \E extended \in QueryOutcomes, basic \in QueryOutcomes :
       /\ extended = "error" \/ basic = "data"
       /\ fetch' = [extended |-> extended,
                    basic |-> IF extended = "error" THEN basic ELSE "none"]
       /\ IF FetchOutcome(extended, basic) = "failed"
          THEN /\ pc' = "rejected"
               /\ failure' = "source"
               /\ UNCHANGED <<strategy, embeddings, result, entry, atStart>>
          ELSE /\ embeddings' = IF FetchOutcome(extended, basic) = "basic"
                                THEN BasicColumns(db) ELSE db
               /\ entry' = "groupMemosSemantically"
               /\ strategy' = "threshold"
               /\ result' = IF Len(embeddings') = 0 THEN <<>>
                            ELSE simpleSemanticGrouping(embeddings')
               /\ pc' = IF caller = "direct" THEN "resolved" ELSE "notifying"
               /\ atStart' = IF caller = "direct" THEN {} ELSE Range(listeners)
               /\ UNCHANGED failure
  /\ UNCHANGED <<db, writes, rpc, knnEdges, clusters, stack, prunedEdges, ufVars, listeners,
                 cursor, invoked, received, removed, caller, cosineVars, digestVars, lateVars>>

\* notifyListeners is at an entry of listeners: the observer it calls next.
Calling == pc = "notifying" /\ cursor < Len(listeners)
Current == listeners[cursor + 1]
Called == [ls |-> listeners, c |-> cursor + 1]

\* listener(groups) for the current entry.
CallCurrent ==
  /\ invoked' = [invoked EXCEPT ![Current] = CountUp(@)]
  /\ received' = [received EXCEPT ![Current] = result]

\* The observer returns.
NotifyReturn ==
  /\ Calling
  /\ CallCurrent
  /\ cursor' = cursor + 1
  /\ UNCHANGED <<db, writes, runVars, ufVars, listeners, atStart, removed, caller, fetch,
                 failure, cosineVars, digestVars, lateVars>>

\* The observer throws: notifyListeners and updateSemanticGroupsAsync pass
\* the exception on (lines 995-998), and so does saveMemoEmbedding.
NotifyThrow ==
  /\ Calling
  /\ CallCurrent
  /\ pc' = "rejected"
  /\ failure' = "observer"
  /\ UNCHANGED <<db, writes, strategy, embeddings, rpc, knnEdges, clusters, stack, result,
                 prunedEdges, entry, ufVars, listeners, cursor, atStart, removed, caller,
                 fetch, cosineVars, digestVars, lateVars>>

\* The observer never returns.
NotifyHang ==
  /\ Calling
  /\ CallCurrent
  /\ pc' = "hung"
  /\ UNCHANGED <<db, writes, strategy, embeddings, rpc, knnEdges, clusters, stack, result,
                 prunedEdges, entry, ufVars, listeners, cursor, atStart, removed, caller,
                 fetch, failure, cosineVars, digestVars, lateVars>>

\* The observer calls the token of a registered observer (its own or
\* another's) and returns.
NotifyUnsubscribe ==
  /\ Calling
  /\ CallCurrent
  /\ \E x \in Range(listeners) :
       /\ listeners' = SetDelete(Called, x).ls
       /\ cursor' = SetDelete(Called, x).c
       /\ removed' = removed \cup {x}
  /\ UNCHANGED <<db, writes, runVars, ufVars, atStart, caller, fetch, failure, cosineVars,
                 digestVars, lateVars>>

\* The observer registers another observer and returns.
NotifySubscribe ==
  /\ Calling
  /\ CallCurrent
  /\ \E x \in Observers \ Range(listeners) :
       /\ listeners' = SetAdd(Called, x).ls
       /\ cursor' = SetAdd(Called, x).c
  /\ UNCHANGED <<db, writes, runVars, ufVars, atStart, removed, caller, fetch, failure,
                 cosineVars, digestVars, lateVars>>

\* The observer calls its own token, registers itself again and returns.
NotifyResubscribe ==
  /\ Calling
  /\ CallCurrent
  /\ listeners' = SetAdd(SetDelete(Called, Current), Current).ls
  /\ cursor' = SetAdd(SetDelete(Called, Current), Current).c
  /\ removed' = removed \cup {Current}
  /\ UNCHANGED <<db, writes, runVars, ufVars, atStart, caller, fetch, failure, cosineVars,
                 digestVars, lateVars>>

\* The loop of notifyListeners is over; updateSemanticGroupsAsync returns
\* groups.
NotifyDone ==
  /\ pc = "notifying"
  /\ cursor >= Len(listeners)
  /\ pc' = "resolved"
  /\ UNCHANGED <<db, writes, strategy, embeddings, rpc, knnEdges, clusters, stack, result,
                 prunedEdges, entry, ufVars, listeners, cursor, invoked, received, atStart,
                 removed, caller, fetch, failure, cosineVars, digestVars, lateVars>>

\* The caller has the promise's outcome; nothing of the run outlives it.
Settle ==
  /\ pc \in {"resolved", "rejected"}
  /\ pc' = "idle"
  /\ strategy' = "none"
  /\ embeddings' = <<>>
  /\ result' = <<>>
  /\ entry' = "none"
  /\ UNCHANGED <<rpc, knnEdges, clusters, stack, prunedEdges>>
  /\ cursor' = 0
  /\ invoked' = [o \in Observers |-> 0]
  /\ received' = [o \in Observers |-> UNDEF]
  /\ atStart' = {}
  /\ removed' = {}
  /\ caller' = "none"
  /\ fetch' = NoFetch
  /\ failure' = "none"
  /\ UNCHANGED <<db, writes, ufVars, listeners, cosineVars, digestVars, lateVars>>

NotifyStep ==
  \/ NotifyReturn
  \/ NotifyThrow
  \/ NotifyHang
  \/ NotifyUnsubscribe
  \/ NotifySubscribe
  \/ NotifyResubscribe
  \/ NotifyDone

NextNotify ==
  \/ Subscribe
  \/ Unsubscribe
  \/ SaveMemo
  \/ SaveFails
  \/ Refresh
  \/ InitialFetch
  \/ FetchAndGroup
  \/ NotifyStep
  \/ Settle

SpecNotify == Init /\ [][NextNotify]_vars

\* notifyListeners is a loop of synchronous calls: it goes on while it can.
SpecNotifyFair == SpecNotify /\ WF_vars(NotifyStep)

\* ------------------------------------------- cosine similarity, Go and TS
\* CosineSimilarity of the digest without its test of the norms: 0/0.
CosineSimilarityUnguarded(a, b) ==
  IF Len(a) # Len(b) \/ Len(a) = 0 THEN 0
  ELSE LET dotProduct == Dot(a, b)
           normA == Dot(a, a)
           normB == Dot(b, b)
       IN IF Sqrt(normA) * Sqrt(normB) = 0 THEN NaN
          ELSE (dotProduct * 100) \div (Sqrt(normA) * Sqrt(normB))

\* CosineSimilarity of the weekly digest (Go), in hundredths.
CosineSimilarity(a, b) ==
  IF Len(a) # Len(b) \/ Len(a) = 0 THEN 0
  ELSE LET dotProduct == Dot(a, b)
           normA == Dot(a, a)
           normB == Dot(b, b)
       IN IF normA = 0 \/ normB = 0 THEN 0
          ELSE (dotProduct * 100) \div (Sqrt(normA) * Sqrt(normB))

\* The vectors the two functions are compared on: empty, of zero norm, of
\* one, two and three dimensions, with negative components.
CosineVectors ==
  { <<>>, <<0>>, <<2>>, <<0 - 3>>, <<0, 0>>, <<3, 4>>,
    <<0, 0, 0>>, <<1, 0, 0>>, <<3, 4, 0>>, <<0, 0 - 1, 0>> }

InitCosine ==
  /\ db = <<>>
  /\ writes = 0
  /\ RunIdle
  /\ UfIdle
  /\ NotifyIdle
  /\ DigestIdle
  /\ LateIdle
  /\ vecA \in CosineVectors
  /\ vecB \in CosineVectors
  /\ sims = <<>>

\* Both functions are called on the two vectors.
Compare ==
  /\ sims = <<>>
  /\ sims' = <<[ts |-> cosineSimilarity(vecA, vecB), go |-> CosineSimilarity(vecA, vecB)]>>
  /\ UNCHANGED <<db, writes, runVars, ufVars, notifyVars, vecA, vecB, digestVars, lateVars>>

NextCosine == Compare

SpecCosine == InitCosine /\ [][NextCosine]_vars

\* ------------------------------------------------ weekly digest (Go)
ConnectionThreshold == 40
MaxConnections == 5

\* A supabase.MemoEmbedding, as far as FindSemanticConnections reads it.
GoEmbedding(name, vector) == [MemoName |-> name, Embedding |-> vector]

\* Vectors whose cosines are 0, 0.4 (the threshold itself) and 1.
DigestVectors == { <<1, 0, 0, 0>>, <<2, 4, 2, 1>>, <<0, 0, 1, 0>> }

\* The memos of this week and the earlier ones; the second earlier memo
\* carries a name of this week.
ThisWeekNames == <<"a", "b">>
PreviousNames == <<"c", "a", "d", "e">>

EmbeddingLists(names) ==
  UNION { { [i \in 1..n |-> GoEmbedding(names[i], v[i])] : v \in [1..n -> DigestVectors] }
          : n \in 0..Len(names) }

\* The connections in the order the two loops append them.
RECURSIVE Appended(_, _, _, _)
Appended(new, old, i, j) ==
  IF i > Len(new) THEN <<>>
  ELSE IF j > Len(old) THEN Appended(new, old, i + 1, 1)
  ELSE LET newEmb == new[i]
           oldEmb == old[j]
           thisWeekNames == { new[k].MemoName : k \in 1..Len(new) }
           sim == CosineSimilarity(newEmb.Embedding, oldEmb.Embedding)
       IN IF newEmb.MemoName = oldEmb.MemoName \/ oldEmb.MemoName \in thisWeekNames
          THEN Appended(new, old, i, j + 1)
          ELSE IF sim >= ConnectionThreshold
          THEN <<[NewMemo |-> newEmb, OldMemo |-> oldEmb, Similarity |-> sim]>>
                 \o Appended(new, old, i, j + 1)
          ELSE Appended(new, old, i, j + 1)

\* The slice left as the loops built it.
SortSliceNot(found) == {found}

\* sort.Slice by Similarity descending.  The sort is not stable: every
\* order of the elements that is descending may come out.
RECURSIVE SortedOrders(_, _)
SortedOrders(found, todo) ==
  IF todo = {} THEN {<<>>}
  ELSE LET top == { i \in todo : \A k \in todo : found[i].Similarity >= found[k].Similarity }
       IN UNION { { <<found[i]>> \o rest : rest \in SortedOrders(found, todo \ {i}) }
                  : i \in top }

SortSlice(found) == SortedOrders(found, 1..Len(found))

\* connections[:MaxConnections] when there are more.
Truncate(list) ==
  IF Len(list) > MaxConnections THEN SubSeq(list, 1, MaxConnections) ELSE list

InitDigest ==
  /\ db = <<>>
  /\ writes = 0
  /\ RunIdle
  /\ UfIdle
  /\ NotifyIdle
  /\ CosineIdle
  /\ LateIdle
  /\ thisWeek \in EmbeddingLists(ThisWeekNames)
  /\ allPrevious \in EmbeddingLists(PreviousNames)
  /\ connections = <<>>

FindSemanticConnections ==
  /\ pc = "idle"
  /\ \E sorted \in SortSlice(Appended(thisWeek, allPrevious, 1, 1)) :
       connections' = Truncate(sorted)
  /\ pc' = "done"
  /\ UNCHANGED <<db, writes, strategy, embeddings, rpc, knnEdges, clusters, stack, result,
                 prunedEdges, entry, ufVars, notifyVars, cosineVars, thisWeek, allPrevious,
                 lateVars>>

NextDigest == FindSemanticConnections

SpecDigest == InitDigest /\ [][NextDigest]_vars

\* ------------------------------------------------ insight of a connection
\* int64 division of Go: the quotient is truncated toward zero.
GoDiv(a, b) == IF a >= 0 THEN a \div b ELSE 0 - ((0 - a) \div b)

\* fmt.Sprintf with %d verbs: the format and the integers it prints.
Sprintf(format, args) == [format |-> format, args |-> args]

\* GenerateInsight with the week counted up to and including the 7th day.
GenerateInsightWeekInclusive(new, old) ==
  IF new = <<>> \/ old = <<>> THEN Sprintf("A surprising connection!", <<>>)
  ELSE LET daysDiff == GoDiv(new[1].CreatedTs - old[1].CreatedTs, 86400)
       IN IF daysDiff <= 7 THEN Sprintf("A thought evolving in your mind", <<>>)
          ELSE Sprintf("Connects to %d days ago", <<daysDiff>>)

GenerateInsight(new, old) ==
  IF new = <<>> \/ old = <<>> THEN Sprintf("A surprising connection!", <<>>)
  ELSE LET daysDiff == GoDiv(new[1].CreatedTs - old[1].CreatedTs, 86400)
           months == GoDiv(daysDiff, 30)
           years == GoDiv(daysDiff, 365)
       IN IF daysDiff < 7 THEN Sprintf("A thought evolving in your mind", <<>>)
          ELSE IF daysDiff < 30 THEN Sprintf("Connects to %d days ago", <<daysDiff>>)
          ELSE IF daysDiff < 365
          THEN IF months = 1 THEN Sprintf("Echoes something from a month ago", <<>>)
               ELSE Sprintf("Echoes something from %d months ago", <<months>>)
          ELSE IF years = 1 THEN Sprintf("Links to an idea from over a year ago!", <<>>)
               ELSE Sprintf("Links to an idea from %d years ago!", <<years>>)

\* Creation times: the time of TestGenerateInsight, and times whole days
\* and some seconds before (or after) it, around every boundary.
Now == 1707500000
DayOffsets ==
  { 0 - 8, 0 - 1, 0, 1, 3, 6, 7, 8, 14, 29, 30, 31, 59, 60, 61, 364, 365, 366, 400, 729,
    730, 731, 1100 }
SecondOffsets == { 0 - 1, 0, 1 }
Memos ==
  { <<>> } \cup
  { <<[CreatedTs |-> Now - d * 86400 - sec]>> : d \in DayOffsets, sec \in SecondOffsets }

InitInsight ==
  /\ db = <<>>
  /\ writes = 0
  /\ RunIdle
  /\ UfIdle
  /\ NotifyIdle
  /\ CosineIdle
  /\ DigestIdle
  /\ newMemo \in { <<>>, <<[CreatedTs |-> Now]>> }
  /\ oldMemo \in Memos
  /\ insight = <<>>
  /\ pairStats = <<>>
  /\ PanelIdle

Insight ==
  /\ insight = <<>>
  /\ insight' = <<GenerateInsight(newMemo, oldMemo)>>
  /\ UNCHANGED <<db, writes, runVars, ufVars, notifyVars, cosineVars, digestVars, newMemo,
                 oldMemo, pairStats, panelVars>>

NextInsight == Insight

SpecInsight == InitInsight /\ [][NextInsight]_vars

\* ------------------------------------ the two similarities of a pair
\* Two documents, each with or without an intent vector, given to the
\* neighbor builder and to the cluster statistics.
StatKinds ==
  { Plain(<<1, 0, 0>>), Plain(<<0, 1, 0>>), Plain(<<3, 4, 0>>), Plain(<<>>),
    WithIntent(<<1, 0, 0>>, <<0, 1, 0>>), WithIntent(<<0, 1, 0>>, <<1, 0, 0>>),
    WithIntent(<<3, 4, 0>>, <<3, 4, 0>>), WithIntent(<<0, 0, 1>>, <<3, 4, 0>>) }

InitStats ==
  \E kindA \in StatKinds, kindB \in StatKinds :
    /\ db = <<Doc("a", kindA), Doc("b", kindB)>>
    /\ writes = 0
    /\ pc = "idle"
    /\ strategy = "none"
    /\ embeddings = db
    /\ rpc = "none"
    /\ knnEdges = <<>>
    /\ clusters = <<>>
    /\ stack = <<>>
    /\ result = <<>>
    /\ prunedEdges = <<>>
    /\ entry = "none"
    /\ UfIdle
    /\ NotifyIdle
    /\ CosineIdle
    /\ DigestIdle
    /\ InsightIdle
    /\ pairStats = <<>>
    /\ PanelIdle

\* computeKnnGraphClientSide and calculateClusterStats on the two documents.
Measure ==
  /\ pairStats = <<>>
  /\ knnEdges' = computeKnnGraphClientSide(embeddings)
  /\ pairStats' = <<calculateClusterStats(embeddings)>>
  /\ UNCHANGED <<db, writes, pc, strategy, embeddings, rpc, clusters, stack, result, prunedEdges,
                 entry, ufVars, notifyVars, cosineVars, digestVars, insightVars, panelVars>>

NextStats == Measure

SpecStats == InitStats /\ [][NextStats]_vars

\* ------------------------------------------- the panel and its runs
\* SemanticPanel mounted: its initial load is in flight, and saves and
\* manual refreshes start further runs, up to MaxRuns in all.  A run is
\* groupMemosSemantically: its query is answered by the table at some
\* moment (answered: rows is what the table held, seen the number of
\* writes made by then), and when the answer reaches the page the run
\* computes the groups and hands them to setGroups (done), the initial
\* load directly, the others through notifyListeners and the panel's
\* observer.  Nothing orders the answers of different queries.
PanelNames == {"a", "b"}
PanelKinds == { Plain(<<1, 0, 0>>), Plain(<<0, 1, 0>>) }

Started(kind) == [kind |-> kind, at |-> "asked", rows |-> <<>>, seen |-> 0]

\* What groupMemosSemantically returns for the rows it read.
semanticGroups(rows) == IF Len(rows) = 0 THEN <<>> ELSE simpleSemanticGrouping(rows)

InitPanel ==
  /\ db = <<>>
  /\ writes = 0
  /\ RunIdle
  /\ UfIdle
  /\ NotifyIdle
  /\ CosineIdle
  /\ DigestIdle
  /\ InsightIdle
  /\ pairStats = <<>>
  /\ runs = <<Started("initial")>>
  /\ panel = <<>>
  /\ subscriptions = <<>>

\* saveMemoEmbedding: the upsert, then updateSemanticGroupsAsync.
PanelSave ==
  /\ Len(runs) < MaxRuns
  /\ \E name \in PanelNames, kind \in PanelKinds : db' = Upsert(db, Doc(name, kind))
  /\ writes' = writes + 1
  /\ runs' = Append(runs, Started("save"))
  /\ UNCHANGED <<runVars, ufVars, notifyVars, cosineVars, digestVars, insightVars, pairStats,
                 panel, subscriptions>>

\* handleRefresh: updateSemanticGroupsAsync.
handleRefresh ==
  /\ Len(runs) < MaxRuns
  /\ runs' = Append(runs, Started("refresh"))
  /\ UNCHANGED <<db, writes, runVars, ufVars, notifyVars, cosineVars, digestVars, insightVars,
                 pairStats, panel, subscriptions>>

\* The table answers the query of getAllMemoEmbeddings of run r.
QueryAnswered ==
  /\ \E r \in 1..Len(runs) :
       /\ runs[r].at = "asked"
       /\ runs' = [runs EXCEPT ![r] = [@ EXCEPT !.at = "answered", !.rows = db, !.seen = writes]]
  /\ UNCHANGED <<db, writes, runVars, ufVars, notifyVars, cosineVars, digestVars, insightVars,
                 pairStats, panel, subscriptions>>

\* The answer reaches the page: the run groups the rows and the panel
\* takes the groups with setGroups.
setGroups ==
  /\ \E r \in 1..Len(runs) :
       /\ runs[r].at = "answered"
       /\ runs' = [runs EXCEPT ![r].at = "done"]
       /\ panel' = <<semanticGroups(runs[r].rows)>>
  /\ UNCHANGED <<db, writes, runVars, ufVars, notifyVars, cosineVars, digestVars, insightVars,
                 pairStats, subscriptions>>

NextPanel ==
  \/ PanelSave
  \/ handleRefresh
  \/ QueryAnswered
  \/ setGroups

SpecPanel == InitPanel /\ [][NextPanel]_vars

\* ------------------------------------------- subscriptions on their own
\* Up to MaxSubscriptions calls of onSemanticGroupsUpdate with one of two
\* handler functions, calls of the functions they returned, and
\* publications in between.  A subscription is one call: its handler,
\* whether the function it returned has been called, how many publications
\* were made while it had not (due) and in how many of those its handler
\* was invoked (got).  The handlers return at once and touch nothing.
Handlers == {"h1", "h2"}

InitSubs ==
  /\ db = <<>>
  /\ writes = 0
  /\ RunIdle
  /\ UfIdle
  /\ NotifyIdle
  /\ CosineIdle
  /\ DigestIdle
  /\ LateIdle

\* onSemanticGroupsUpdate(listener): listeners.add(listener).
onSemanticGroupsUpdate ==
  /\ Len(subscriptions) < MaxSubscriptions
  /\ \E h \in Handlers :
       /\ listeners' = SetAdd([ls |-> listeners, c |-> 0], h).ls
       /\ subscriptions' =
            Append(subscriptions, [listener |-> h, unsubscribed |-> FALSE, due |-> 0, got |-> 0])
  /\ UNCHANGED <<db, writes, runVars, ufVars, cursor, invoked, received, atStart, removed, caller,
                 fetch, failure, cosineVars, digestVars, insightVars, pairStats, runs, panel>>

\* The function a call returned: () => listeners.delete(listener).
unsubscribe ==
  /\ \E i \in 1..Len(subscriptions) :
       /\ ~subscriptions[i].unsubscribed
       /\ listeners' = SetDelete([ls |-> listeners, c |-> 0], subscriptions[i].listener).ls
       /\ subscriptions' = [subscriptions EXCEPT ![i].unsubscribed = TRUE]
  /\ UNCHANGED <<db, writes, runVars, ufVars, cursor, invoked, received, atStart, removed, caller,
                 fetch, failure, cosineVars, digestVars, insightVars, pairStats, runs, panel>>

\* notifyListeners(groups): every entry of listeners is invoked once.
notifyListeners ==
  /\ Len(subscriptions) > 0
  /\ \A i \in 1..Len(subscriptions) : subscriptions[i].due < MaxPublishes
  /\ subscriptions' =
       [i \in 1..Len(subscriptions) |->
          IF subscriptions[i].unsubscribed THEN subscriptions[i]
          ELSE [subscriptions[i] EXCEPT
                  !.due = @ + 1,
                  !.got = IF subscriptions[i].listener \in Range(listeners) THEN @ + 1 ELSE @]]
  /\ UNCHANGED <<db, writes, runVars, ufVars, notifyVars, cosineVars, digestVars, insightVars,
                 pairStats, runs, panel>>

NextSubs ==
  \/ onSemanticGroupsUpdate
  \/ unsubscribe
  \/ notifyListeners

SpecSubs == InitSubs /\ [][NextSubs]_vars

\* =============================================================== claims
NamesOf(cluster) == { cluster[i].memo_name : i \in 1..Len(cluster) }
DocsOf(list) == UNION { NamesOf(list[g]) : g \in 1..Len(list) }

\* How many times a name occurs in a list of clusters.
Occurrences(list, name) ==
  SumSeq([g \in 1..Len(list) |->
            Len(SelectSeq(list[g], LAMBDA m : m.memo_name = name))])

\* A list of clusters is a partition of the memos named in whole: no
\* cluster is empty, no name occurs twice, and the names are those of whole.
PartitionOf(list, whole) ==
  /\ \A g \in 1..Len(list) : Len(list[g]) > 0
  /\ \A name \in DocsOf(list) \cup NamesOf(whole) :
       Occurrences(list, name) = 1 /\ name \in NamesOf(whole)
  /\ \A g \in 1..Len(list) : \A i \in 1..Len(list[g]) : list[g][i] \in Range(whole)

\* ---- C1
\* C1: every recursive call of splitHighVarianceClusters is made on
\* clusters strictly smaller than the cluster being split, and the
\* recursion never exhausts the call stack.
C1_RecursionShrinks ==
  /\ pc # "failed"
  /\ \A d \in 2..Len(stack) : \A q \in 1..Len(stack[d].subs) :
       Len(stack[d].subs[q]) < Len(stack[d].parent)

\* ---- C2
\* The outermost call of splitHighVarianceClusters is about to return
\* stack[1].result.
RefinerReturns == pc = "refine" /\ Len(stack) = 1 /\ stack[1].todo = <<>>

\* C2: what splitClusterByVariance returns for a cluster, and what the
\* refiner returns for a list of clusters, is a partition of the input into
\* non-empty sub-clusters: nothing lost, nothing duplicated, and every
\* sub-cluster inside one input cluster.
C2_RefinerPartitions ==
  /\ \A d \in 2..Len(stack) : PartitionOf(stack[d].subs, stack[d].parent)
  /\ RefinerReturns =>
       /\ PartitionOf(stack[1].result, Flatten(clusters))
       /\ \A g \in 1..Len(stack[1].result) : \E c \in 1..Len(clusters) :
            NamesOf(stack[1].result[g]) \subseteq NamesOf(clusters[c])

\* A cluster of four was split, and one of its halves split again.
C2_Witness ==
  /\ RefinerReturns
  /\ Len(clusters) = 1
  /\ Len(clusters[1]) = 4
  /\ Len(stack[1].result) = 3

\* ---- C3
\* cos(a, b) >= 0.4 in whole numbers, without a square root.
CosAtLeastThreshold(a, b) ==
  /\ Len(a) = Len(b)
  /\ Dot(a, b) > 0
  /\ 25 * Dot(a, b) * Dot(a, b) >= 4 * Dot(a, a) * Dot(b, b)

ValidPos(embs) == { i \in 1..Len(embs) : Len(embs[i].embedding) > 0 }

RECURSIVE LinkedFrom(_, _)
LinkedFrom(embs, S) ==
  LET T == S \cup { j \in ValidPos(embs) :
                      \E i \in S : CosAtLeastThreshold(embs[i].embedding, embs[j].embedding) }
  IN IF T = S THEN S ELSE LinkedFrom(embs, T)

SameGroup(list, n1, n2) ==
  \E g \in 1..Len(list) : n1 \in NamesOf(list[g]) /\ n2 \in NamesOf(list[g])

ExampleCorpus ==
  << Doc("a", Plain(<<1, 0, 0>>)), Doc("b", Plain(<<1, 0, 0>>)), Doc("c", Plain(<<0, 1, 0>>)) >>

\* C3: in the result of the threshold strategy two documents with
\* non-empty vectors share a group exactly when a chain of pairs of equal
\* dimension and cosine >= 0.4 links them; the run does not fail; and
\* A = [1,0,0], B = [1,0,0], C = [0,1,0] gives the groups {A, B} and {C}.
C3_ThresholdGroupsAreChains ==
  /\ strategy = "threshold" => pc # "failed"
  /\ (pc = "done" /\ strategy = "threshold") =>
       /\ \A i \in ValidPos(embeddings) : \A j \in ValidPos(embeddings) :
            SameGroup(result, embeddings[i].memo_name, embeddings[j].memo_name)
              <=> j \in LinkedFrom(embeddings, {i})
       /\ embeddings = ExampleCorpus =>
            result = << <<ExampleCorpus[1], ExampleCorpus[2]>>, <<ExampleCorpus[3]>> >>

\* Three documents, the first and the last linked only through the second,
\* beside the example corpus of the claim.
C3_Witness ==
  /\ pc = "done"
  /\ strategy = "threshold"
  /\ Len(embeddings) = 3
  /\ Len(result) = 1
  /\ ~CosAtLeastThreshold(embeddings[1].embedding, embeddings[3].embedding)

\* ---- C4
\* C4: in a returned partition no document id is in two groups (or twice
\* in one), and the threshold strategy puts every document with a non-empty
\* vector in exactly one group.
C4_AtMostOneGroup ==
  pc = "done" =>
    /\ \A name \in Names : Occurrences(result, name) <= 1
    /\ strategy = "threshold" =>
         \A i \in ValidPos(embeddings) : Occurrences(result, embeddings[i].memo_name) = 1

\* The graph strategy returned two groups for three documents, from edges
\* the provider supplied.
C4_Witness ==
  /\ pc = "done"
  /\ strategy = "graph"
  /\ rpc = "data"
  /\ Len(embeddings) = 3
  /\ Len(result) = 2

\* ---- C5
\* C5: no document with an empty vector is in a group of the result, and a
\* corpus of documents that all lack a vector gives the empty partition and
\* no failure.
C5_NoVectorNoGroup ==
  /\ pc = "done" =>
       \A g \in 1..Len(result) : \A i \in 1..Len(result[g]) :
         Len(result[g][i].embedding) > 0
  /\ (pc \in {"done", "failed"} /\ ValidPos(embeddings) = {}) =>
       pc = "done" /\ result = <<>>

\* ---- C6
\* C6: a run on the empty corpus, under either strategy, ends with the
\* empty partition and not with a failure.
C6_EmptyCorpus ==
  (pc \in {"done", "failed"} /\ Len(embeddings) = 0) => (pc = "done" /\ result = <<>>)

\* The graph strategy on the empty corpus, the provider naming documents
\* all the same.
C6_Witness ==
  /\ pc = "done"
  /\ strategy = "graph"
  /\ Len(embeddings) = 0
  /\ Len(knnEdges) > 0

\* ---- C7
\* C7: when fetchKnnGraph returns no edge, the graph strategy returns what
\* the threshold strategy returns on the same corpus: the same groups under
\* the same labels.
C7_FallbackIsThreshold ==
  (pc = "done" /\ strategy = "graph" /\ Len(knnEdges) = 0) =>
    result = simpleSemanticGrouping(embeddings)

\* No edge for a corpus of three documents, two of which the threshold
\* strategy groups.
C7_Witness ==
  /\ pc = "done"
  /\ strategy = "graph"
  /\ Len(knnEdges) = 0
  /\ Len(embeddings) = 3
  /\ Len(result) = 2

\* ---- C8
\* C8: whenever the call of get_all_knn fails (error, exception) or returns
\* no data, fetchKnnGraph returns the edges computeKnnGraphClientSide
\* computes from the table.
C8_FallbackToBruteForce ==
  [][(pc # "knnDone" /\ pc' = "knnDone" /\ rpc' \in {"error", "throw", "nodata"})
       => knnEdges' = computeKnnGraphClientSide(db)]_vars

\* ---- C9
PosOf(name) == CHOOSE p \in 1..Len(db) : db[p].memo_name = name

\* The order computeKnnGraphClientSide is to rank the targets of src by.
RanksBefore(src, p, q) ==
  \/ EffectiveSim(src, db[p]) > EffectiveSim(src, db[q])
  \/ EffectiveSim(src, db[p]) = EffectiveSim(src, db[q]) /\ p < q

EdgesFrom(name) == SelectSeq(knnEdges, LAMBDA e : e.source_memo = name)

DimCount(embs, d) == Cardinality({ i \in 1..Len(embs) : Len(embs[i].embedding) = d })
MajorityDims(embs) ==
  { Len(embs[i].embedding) : i \in { j \in 1..Len(embs) :
      \A k \in 1..Len(embs) :
        DimCount(embs, Len(embs[k].embedding)) <= DimCount(embs, Len(embs[j].embedding)) } }
WellFormed(embs, name) ==
  /\ HasMemo(embs, name)
  /\ Len(MemoGet(embs, name).embedding) > 0
  /\ Len(MemoGet(embs, name).embedding) \in MajorityDims(embs)

\* C10: no edge of the neighbor builder starts or ends at a document whose
\* vector is empty or of another dimension than most of the corpus.
C10_NoMalformedEndpoint ==
  pc = "knnDone" =>
    \A i \in 1..Len(knnEdges) :
      /\ WellFormed(db, knnEdges[i].source_memo)
      /\ WellFormed(db, knnEdges[i].target_memo)

\* ---- C11
HasEdge(edges, s, t) ==
  \E i \in 1..Len(edges) : edges[i].source_memo = s /\ edges[i].target_memo = t

\* C11: with mutuality required, every undirected edge buildMutualKnnGraph
\* puts out has both of its directions in the directed list it was given,
\* whatever the list (repeated edges included).
C11_MutualOnly ==
  MUTUAL_KNN_REQUIRED =>
    \A i \in 1..Len(prunedEdges) :
      /\ HasEdge(knnEdges, prunedEdges[i].source, prunedEdges[i].target)
      /\ HasEdge(knnEdges, prunedEdges[i].target, prunedEdges[i].source)

\* One pair kept, and an edge above the minimum similarity dropped for
\* want of its reverse.
C11_Witness ==
  /\ Len(prunedEdges) = 1
  /\ \E i \in 1..Len(knnEdges) :
       /\ knnEdges[i].similarity > MIN_SIMILARITY_THRESHOLD
       /\ ~HasEdge(knnEdges, knnEdges[i].target_memo, knnEdges[i].source_memo)

\* ---- C12
\* The components of a union-find: the sets of keys of one root.
Components(u) ==
  LET root == [k \in Range(u.keys) |-> find(u, k).root]
  IN { { k \in Range(u.keys) : root[k] = root[j] } : j \in Range(u.keys) }

\* The ids a chain of the unions made so far links to one of S.
RECURSIVE UfLinkedFrom(_)
UfLinkedFrom(S) ==
  LET T == S \cup { x \in Range(UfItems) :
                      \E i \in 1..Len(ufOps) :
                        \/ ufOps[i][1] \in S /\ ufOps[i][2] = x
                        \/ ufOps[i][2] \in S /\ ufOps[i][1] = x }
  IN IF T = S THEN S ELSE UfLinkedFrom(T)

\* C12: over registered ids, ids that unions made so far link in a chain
\* (union(A,B) and union(B,C)) have one root; union(x,y) and union(y,x)
\* give the same components; and making once more a union already made
\* changes neither the components nor a rank.
C12_UnionFindLaws ==
  /\ \A x \in Range(UfItems) : \A y \in UfLinkedFrom({x}) :
       find(uf, x).root = find(uf, y).root
  /\ \A i \in 1..Len(UfItems) : \A j \in (i + 1)..Len(UfItems) :
       Components(union(uf, UfItems[i], UfItems[j]))
         = Components(union(uf, UfItems[j], UfItems[i]))
  /\ \A i \in 1..Len(ufOps) :
       LET again == union(uf, ufOps[i][1], ufOps[i][2])
       IN Components(again) = Components(uf) /\ again.rank = uf.rank

\* union(A,B), union(B,C) and union(A,B) once more, on three ids.
C12_Witness ==
  /\ Len(ufOps) = 3
  /\ ufOps[1][2] = ufOps[2][1]
  /\ Cardinality({ufOps[1][1], ufOps[1][2], ufOps[2][2]}) = 3
  /\ ufOps[3] = ufOps[1]
  /\ Cardinality(Components(uf)) = 2

\* ---- C13
\* C13: an observer that throws or never returns does not reach the run:
\* updateSemanticGroupsAsync (and with it saveMemoEmbedding) is never left
\* waiting for an observer and never rejects because of one.
C13_FireAndForget ==
  /\ pc # "hung"
  /\ (pc = "rejected" => failure # "observer")

\* ---- C14
\* The observers a notification owes a call to: those registered when it
\* began and not unsubscribed in its course.
Stayed == atStart \ removed

C15_NotificationEnds ==
  /\ [](pc = "resolved" => \A o \in Stayed : invoked[o] = 1)
  /\ ((pc = "notifying") ~> (pc # "notifying"))

\* ---- C17
\* The queries of getAllMemoEmbeddings left it without rows: the extended
\* query threw, or it gave an error and the basic query did not give data.
ReadFailed ==
  \/ fetch.extended = "throw"
  \/ fetch.extended = "error" /\ fetch.basic \in {"error", "throw"}

\* C17: when the read of the table fails the run rejects with that failure,
\* with no partition and no observer called; when only the extended query
\* gives an error the run goes on with the rows of the basic query.
C17_ReadFailureRejects ==
  /\ ReadFailed =>
       /\ pc = "rejected"
       /\ failure = "source"
       /\ result = <<>>
       /\ \A o \in Observers : invoked[o] = 0
  /\ (fetch.extended = "error" /\ fetch.basic = "data") =>
       /\ failure # "source"
       /\ pc \in {"notifying", "resolved", "rejected", "hung"}
       /\ embeddings = BasicColumns(db)
       /\ pc = "rejected" => failure = "observer"

C17_Witness ==
  /\ pc = "rejected"
  /\ caller = "refresh"
  /\ fetch = [extended |-> "error", basic |-> "error"]
  /\ Len(listeners) = 2
  /\ Len(db) = 2

\* ---- C16
\* C16: in a run of the graph strategy that computes its neighbor graph
\* itself, every edge it prunes and every id it passes to union joins two
\* documents of the embeddings list the run was given.
C16_SingleSnapshot ==
  rpc \in {"error", "throw"} =>
    /\ \A i \in 1..Len(knnEdges) :
         {knnEdges[i].source_memo, knnEdges[i].target_memo} \subseteq NamesOf(embeddings)
    /\ \A i \in 1..Len(prunedEdges) :
         {prunedEdges[i].source, prunedEdges[i].target} \subseteq NamesOf(embeddings)

\* ---- C18
\* C18: a run entered through groupMemosSemantically on a corpus that is
\* not empty asks the neighbor-graph provider, and runs the graph strategy
\* when the provider gives edges.
C18_EntryPointDispatches ==
  (pc = "done" /\ entry = "groupMemosSemantically" /\ Len(embeddings) > 0) =>
    /\ rpc # "none"
    /\ (Len(knnEdges) > 0 => strategy = "graph")

\* ---- C19
\* Inputs with no direction to compare: vectors of different lengths, two
\* empty vectors, or a vector of zero norm.
Neutral(a, b) ==
  \/ Len(a) # Len(b)
  \/ Len(a) = 0 /\ Len(b) = 0
  \/ \A i \in 1..Len(a) : a[i] = 0
  \/ \A i \in 1..Len(b) : b[i] = 0

\* C19: on vectors of different lengths, on two empty vectors and when one
\* vector has norm zero, cosineSimilarity (TypeScript) and CosineSimilarity
\* (Go) both return exactly 0, and so agree.
C19_CosineTotal ==
  Neutral(vecA, vecB) =>
    \A i \in 1..Len(sims) : sims[i].ts = 0 /\ sims[i].go = 0

C19_Witness ==
  /\ vecA = <<0, 0, 0>>
  /\ vecB = <<3, 4, 0>>
  /\ sims = <<[ts |-> 0, go |-> 0]>>

\* ---- C20
\* The pairs FindSemanticConnections may report: a memo of this week with
\* an earlier memo that bears no name of this week, at a similarity of at
\* least ConnectionThreshold.
Qualifying ==
  { [NewMemo |-> thisWeek[i], OldMemo |-> allPrevious[j],
     Similarity |-> CosineSimilarity(thisWeek[i].Embedding, allPrevious[j].Embedding)] :
      <<i, j>> \in { q \in (1..Len(thisWeek)) \X (1..Len(allPrevious)) :
                      /\ \A k \in 1..Len(thisWeek) :
                           thisWeek[k].MemoName # allPrevious[q[2]].MemoName
                      /\ CosineSimilarity(thisWeek[q[1]].Embedding,
                                          allPrevious[q[2]].Embedding) >= ConnectionThreshold } }

\* C20: the connections returned are in non-increasing order of similarity,
\* at most MaxConnections, each a qualifying pair (similarity at least
\* ConnectionThreshold, the earlier memo not named like a memo of this
\* week), none twice; and no qualifying pair left out is more similar than
\* one returned, all being returned when at most MaxConnections qualify.
C20_TopConnections ==
  pc = "done" =>
    /\ Len(connections) <= MaxConnections
    /\ \A i \in 1..Len(connections) : \A j \in 1..Len(connections) :
         /\ i < j => connections[i].Similarity >= connections[j].Similarity
         /\ i # j => connections[i] # connections[j]
    /\ Range(connections) \subseteq Qualifying
    /\ Len(connections) = IF Cardinality(Qualifying) > MaxConnections
                          THEN MaxConnections ELSE Cardinality(Qualifying)
    /\ \A out \in Qualifying \ Range(connections) : \A i \in 1..Len(connections) :
         out.Similarity <= connections[i].Similarity

C20_Witness ==
  /\ pc = "done"
  /\ Cardinality(Qualifying) > MaxConnections
  /\ Len(connections) = MaxConnections
  /\ connections[1].Similarity > connections[MaxConnections].Similarity
  /\ \E j \in 1..Len(allPrevious) : allPrevious[j].MemoName = "a"

\* ---- C21
\* The whole days from the old memo to the new one, as Go divides.
WholeDays == GoDiv(newMemo[1].CreatedTs - oldMemo[1].CreatedTs, 86400)

\* C21: GenerateInsight gives 'A surprising connection!' when a memo is
\* nil, and otherwise the one message of the whole-day difference d: below 7
\* the evolving thought, below 30 the days message with d, below 365 the
\* months message with d / 30 (singular for 1), from 365 on the years
\* message with d / 365 (singular for 1).
C21_InsightByAge ==
  \A i \in 1..Len(insight) :
    IF newMemo = <<>> \/ oldMemo = <<>>
    THEN insight[i] = [format |-> "A surprising connection!", args |-> <<>>]
    ELSE /\ WholeDays < 7 =>
              insight[i] = [format |-> "A thought evolving in your mind", args |-> <<>>]
         /\ (7 <= WholeDays /\ WholeDays < 30) =>
              insight[i] = [format |-> "Connects to %d days ago", args |-> <<WholeDays>>]
         /\ (30 <= WholeDays /\ WholeDays < 60) =>
              insight[i] = [format |-> "Echoes something from a month ago", args |-> <<>>]
         /\ (60 <= WholeDays /\ WholeDays < 365) =>
              insight[i] = [format |-> "Echoes something from %d months ago",
                            args |-> <<WholeDays \div 30>>]
         /\ (365 <= WholeDays /\ WholeDays < 730) =>
              insight[i] = [format |-> "Links to an idea from over a year ago!", args |-> <<>>]
         /\ 730 <= WholeDays =>
              insight[i] = [format |-> "Links to an idea from %d years ago!",
                            args |-> <<WholeDays \div 365>>]

C21_Witness ==
  /\ newMemo # <<>>
  /\ oldMemo # <<>>
  /\ WholeDays = 7
  /\ insight = <<[format |-> "Connects to %d days ago", args |-> <<7>>]>>

\* ---- C22
\* The number of raw directed edges that leave x.
OutDegree(x) == Cardinality({ i \in 1..Len(knnEdges) : knnEdges[i].source_memo = x })

StatSim(x, y) ==
  LET primary == cosineSimilarity(x.embedding, y.embedding)
  IN IF x.has_intent /\ y.has_intent
     THEN Max2(primary, cosineSimilarity(x.intent_embedding, y.intent_embedding))
     ELSE primary

\* The sums of the similarities of each document of cluster c to the
\* others: its mean similarity to them times Len(c) - 1.
SumsToOthers(c) ==
  [i \in 1..Len(c) |-> SumSeq([j \in 1..Len(c) |-> IF j = i THEN 0 ELSE StatSim(c[i], c[j])])]

\* The first document of highest, and the first of lowest, mean similarity.
CentralSeed(sums) ==
  CHOOSE i \in 1..Len(sums) :
    /\ \A j \in 1..Len(sums) : sums[i] >= sums[j]
    /\ \A j \in 1..(i - 1) : sums[j] < sums[i]
PeripheralSeed(sums) ==
  CHOOSE i \in 1..Len(sums) :
    /\ \A j \in 1..Len(sums) : sums[i] <= sums[j]
    /\ \A j \in 1..(i - 1) : sums[j] > sums[i]

\* The documents of c at least as similar to the central seed as to the
\* peripheral one.
OnCentralSide(m, central, peripheral) ==
  cosineSimilarity(m.embedding, central.embedding)
    >= cosineSimilarity(m.embedding, peripheral.embedding)

\* What the bisection owes for cluster c.
Bisection(c) ==
  LET sums == SumsToOthers(c)
      central == CentralSeed(sums)
      peripheral == PeripheralSeed(sums)
      centralSide == SelectSeq(c, LAMBDA m : OnCentralSide(m, c[central], c[peripheral]))
      peripheralSide == SelectSeq(c, LAMBDA m : ~OnCentralSide(m, c[central], c[peripheral]))
  IN IF central = peripheral THEN <<c>>
     ELSE IF centralSide = <<>> \/ peripheralSide = <<>> THEN <<c>>
     ELSE <<centralSide, peripheralSide>>

PairSims(c) ==
  LET pairs == Pairs(Len(c))
  IN [q \in 1..Len(pairs) |-> StatSim(c[pairs[q][1]], c[pairs[q][2]])]

Incoherent(c) ==
  LET similarities == PairSims(c)
      count == Len(similarities)
      sum == SumSeq(similarities)
      sumSq == SumSeq([q \in 1..count |-> similarities[q] * similarities[q]])
  IN \/ count * sumSq - sum * sum > MAX_SIMILARITY_VARIANCE * count * count
     \/ sum < MIN_AVG_SIMILARITY_FOR_COHESION * count

\* C24: at every level of the recursion, the refiner goes into
\* splitClusterByVariance for the next cluster exactly when the cluster has
\* at least MIN_CLUSTER_SIZE_FOR_SPLIT documents and its statistics call
\* for a split; otherwise it puts the cluster into its result as it is.
C24_SplitsWhenIncoherent ==
  [][ (pc = "refine" /\ stack # <<>> /\ stack[Len(stack)].todo # <<>>) =>
        LET c == stack[Len(stack)].todo[1]
            top == stack[Len(stack)]
        IN IF Len(c) >= MIN_CLUSTER_SIZE_FOR_SPLIT /\ Incoherent(c)
           THEN \/ pc' = "failed"
                \/ /\ Len(stack') = Len(stack) + 1
                   /\ stack'[Len(stack')].parent = c
           ELSE /\ Len(stack') = Len(stack)
                /\ stack'[Len(stack')].result = Append(top.result, c)
                /\ stack'[Len(stack')].todo = Tail(top.todo) ]_vars

\* A cluster of two unlike documents, whose statistics call for a split,
\* was put into the result as it is.
C24_Witness ==
  /\ pc = "refine"
  /\ Len(stack) = 1
  /\ \E g \in 1..Len(stack[1].result) :
       /\ Len(stack[1].result[g]) = 2
       /\ Incoherent(stack[1].result[g])

\* ---- C25
\* C25: for two documents that both have an intent vector, the similarity
\* in the cluster statistics is the similarity the neighbor builder gives
\* their edge: the largest of the four cosines of a vector of one with a
\* vector of the other.
C25_SameSimilarity ==
  \A s \in 1..Len(pairStats) :
    (embeddings[1].has_intent /\ embeddings[2].has_intent) =>
      \A q \in 1..Len(pairStats[s].pairwiseSimilarities) : \A i \in 1..Len(knnEdges) :
        /\ pairStats[s].pairwiseSimilarities[q].sim = knnEdges[i].similarity
        /\ \A x \in {embeddings[1].embedding, embeddings[1].intent_embedding} :
             \A y \in {embeddings[2].embedding, embeddings[2].intent_embedding} :
               pairStats[s].pairwiseSimilarities[q].sim >= cosineSimilarity(x, y)

\* ---- C26
\* The position in the input of the first document of group g.
FirstMember(g) ==
  CHOOSE i \in 1..Len(embeddings) :
    /\ embeddings[i].memo_name \in NamesOf(result[g])
    /\ \A j \in 1..(i - 1) : embeddings[j].memo_name \notin NamesOf(result[g])

\* C26: the threshold strategy returns as many groups as the documents with
\* a vector have connected components, 'Group 1' to 'Group n' (result[1] to
\* result[n]), none empty, and the first document of each group comes
\* before the first document of the next group in the input.
C26_LabelsInOrder ==
  (pc = "done" /\ strategy = "threshold") =>
    /\ Len(result) =
         Cardinality({ LinkedFrom(embeddings, {i}) : i \in ValidPos(embeddings) })
    /\ \A g \in 1..Len(result) : Len(result[g]) > 0
    /\ \A g \in 1..(Len(result) - 1) : FirstMember(g) < FirstMember(g + 1)

\* 'Group 1' holds the first and the third document, 'Group 2' the second.
C26_Witness ==
  /\ pc = "done"
  /\ strategy = "threshold"
  /\ Len(embeddings) = 3
  /\ Len(result) = 2
  /\ NamesOf(result[1]) = {embeddings[1].memo_name, embeddings[3].memo_name}
  /\ NamesOf(result[2]) = {embeddings[2].memo_name}

\* ---- C27
\* The orders in which n unions can be made.
Orders(n) == { p \in [1..n -> 1..n] : \A i \in 1..n : \A j \in 1..n : p[i] = p[j] => i = j }

\* The unions made so far, made in the order p on a fresh union-find.
InOrder(p) == UnionAll(UnionFind(UfItems), [i \in 1..Len(ufOps) |-> ufOps[p[i]]])

\* The pairs of the unions made so far are each given lower id first.
LowerFirst == \A i \in 1..Len(ufOps) : IndexOf(UfItems, ufOps[i][1]) < IndexOf(UfItems, ufOps[i][2])

\* C27: the components that a set of unions gives do not depend on the
\* order of the unions.  Whatever the order the unions were made in, the
\* components held are those of the graph of their pairs; and made in any
\* other order on a fresh union-find over the same ids, the same unions
\* give these components again, roots apart (the reorderings are tried
\* on the sequences that give every pair lower id first: which way round
\* a pair is given is the concern of C12).
C27_OrderFree ==
  LET linked == { UfLinkedFrom({x}) : x \in Range(UfItems) }
  IN /\ Components(uf) = linked
     /\ LowerFirst => \A p \in Orders(Len(ufOps)) : Components(InOrder(p)) = linked

\* Three unions that link three ids, and an order of them that ends with
\* another root than the one held.
C27_Witness ==
  /\ Len(ufOps) = 3
  /\ LowerFirst
  /\ \E c \in Components(uf) : Cardinality(c) >= 3
  /\ \E p \in Orders(3) : \E x \in Range(UfItems) :
       find(InOrder(p), x).root # find(uf, x).root

\* ---- C28
\* The undirected pairs of a pruned list, each with its weight.
WeightedPairs(pruned) ==
  { [pair |-> {pruned[q].source, pruned[q].target}, weight |-> pruned[q].weight] :
      q \in 1..Len(pruned) }

\* C28: the pairs and weights that buildMutualKnnGraph outputs do not
\* depend on the order of its input: every reordering of the directed
\* edges given to the run, the two directions of a pair or repeats of one
\* direction carrying different similarities included, gives the pairs and
\* weights the run has output.
C28_InputOrderFree ==
  pc = "refine" =>
    \A p \in Orders(Len(knnEdges)) :
      WeightedPairs(buildMutualKnnGraph([i \in 1..Len(knnEdges) |-> knnEdges[p[i]]]))
        = WeightedPairs(prunedEdges)

\* ---- C29
\* The runs that read the table last: no run saw more writes.
Newest == { r \in 1..Len(runs) : \A q \in 1..Len(runs) : runs[q].seen <= runs[r].seen }

\* C29: with the initial load, save-triggered runs and manual refreshes in
\* flight together, the groups the panel holds once every run has
\* completed are those computed from the most recent snapshot of the table
\* that a run read: a run that read an older snapshot and finished later
\* has not overwritten them.
C29_NewestSnapshotWins ==
  (\A r \in 1..Len(runs) : runs[r].at = "done") =>
    \E r \in Newest : panel = <<semanticGroups(runs[r].rows)>>

\* ---- C30
\* C30: every call of onSemanticGroupsUpdate is a subscription of its
\* own: one whose unsubscribe function has not been called has had its
\* handler invoked in every publication since, also when another call
\* registered the same handler; and a handler all of whose subscriptions
\* have been unsubscribed is not among those a publication invokes.
C30_IndependentSubscriptions ==
  /\ \A i \in 1..Len(subscriptions) :
       ~subscriptions[i].unsubscribed => subscriptions[i].got = subscriptions[i].due
  /\ \A h \in Handlers :
       (/\ \E i \in 1..Len(subscriptions) : subscriptions[i].listener = h
        /\ \A i \in 1..Len(subscriptions) :
             subscriptions[i].listener = h => subscriptions[i].unsubscribed)
         => h \notin Range(listeners)

====
